---- MODULE Spec2Model ----
(***************************************************************************)
(* A model of tools/eliminator.js: the AST walker (traverse), the variable *)
(* eliminator (Eliminator) and the additive-chain folder                   *)
(* (ExpressionOptimizer).                                                  *)
(*                                                                         *)
(* AST nodes.  The parser's nodes are JavaScript arrays: position 0 holds  *)
(* the kind tag, the other positions hold operators, literals and child    *)
(* arrays.  A node is modelled as the record                               *)
(*     [type, s, n, kids]                                                  *)
(* where type is position 0 when it is a string and ARRAY when the array   *)
(* has no tag (a statement list, an argument list, a switch case), s is    *)
(* the string payload (a name, an operator), n the numeric payload, and    *)
(* kids the child arrays in index order.  A `var` entry ['a', init] has    *)
(* type "a": the walker hands it to the observer like any tagged array.    *)
(***************************************************************************)
EXTENDS Integers, Sequences, FiniteSets, TLC

VARIABLES
    pc,         \* position of the driver
    body,       \* this.body / ExpressionOptimizer.node: the AST being rewritten
    that,       \* the Eliminator instance (its per-identifier tables)
    todo,       \* calculateTransitiveDependencies: local `todo`
    incomplete, \* calculateTransitiveDependencies: local `incomplete`
    forInLive,  \* whether for-in visits properties added during the loop
    toReplace,  \* run: local `toReplace`
    eliminated, \* run: local `eliminated`
    input,      \* history: the body handed to the first run
    history,    \* history: <<body, eliminated>> of every completed run
    joins,      \* history: live sets around every if/try/switch of the last analysis
    scans       \* history: every inner traversal of ExpressionOptimizer.run

vars == <<pc, body, that, todo, incomplete, forInLive, toReplace, eliminated,
          input, history, joins, scans>>

----------------------------------------------------------------------------
(* Bounds of the model *)

\* Numeric literals are 1..MaxNum.
MaxNum == 2
\* Runs of optimize_function on one body.
MaxRuns == 2
\* Edges of an initial affects graph (SpecClosure).
MaxEdges == 3

----------------------------------------------------------------------------
(* Program constants *)

MAX_USES == 1

NODES_WITHOUT_SIDE_EFFECTS ==
    {"name", "num", "string", "binary", "sub", "unary-prefix"}

CONTROL_FLOW_NODES == {"new", "throw", "call", "label", "debugger"}

ANALYZE_BLOCK_TYPES == {"switch", "if", "try", "do", "while", "for", "for-in"}

----------------------------------------------------------------------------
(* AST constructors (the shapes the parser produces) *)

ARRAY == "[]"

Node(type, s, n, kids) == [type |-> type, s |-> s, n |-> n, kids |-> kids]

Arr(kids) == Node(ARRAY, "", 0, kids)
Name(x) == Node("name", x, 0, <<>>)
Num(v) == Node("num", "", v, <<>>)
Binary(op, l, r) == Node("binary", op, 0, <<l, r>>)
Assign(lhs, rhs) == Node("assign", "=", 0, <<lhs, rhs>>)
Postfix(op, e) == Node("unary-postfix", op, 0, <<e>>)
Prefix(op, e) == Node("unary-prefix", op, 0, <<e>>)
Sub(e, i) == Node("sub", "", 0, <<e, i>>)
Call(f, args) == Node("call", "", 0, <<f, Arr(args)>>)
New(f, args) == Node("new", "", 0, <<f, Arr(args)>>)
Throw(e) == Node("throw", "", 0, <<e>>)
Stat(e) == Node("stat", "", 0, <<e>>)
Return(e) == Node("return", "", 0, <<e>>)
Block(stmts) == Node("block", "", 0, <<Arr(stmts)>>)
Decl(v, init) == Node(v, "", 0, <<init>>)
DeclNoInit(v) == Node(v, "", 0, <<>>)
Var(decls) == Node("var", "", 0, <<Arr(decls)>>)
If(c, t) == Node("if", "", 0, <<c, t>>)
IfElse(c, t, e) == Node("if", "", 0, <<c, t, e>>)
While(c, b) == Node("while", "", 0, <<c, b>>)
Do(c, b) == Node("do", "", 0, <<c, b>>)
For(i, c, s, b) == Node("for", "", 0, <<i, c, s, b>>)
ForIn(v, k, o, b) == Node("for-in", "", 0, <<v, k, o, b>>)
Try(b, cname, c) == Node("try", "", 0, <<Arr(b), Node(cname, "", 0, <<Arr(c)>>)>>)
Case(e, stmts) == Arr(<<e, Arr(stmts)>>)
Switch(e, cases) == Node("switch", "", 0, <<e, Arr(cases)>>)
TopLevel == Node("toplevel", "", 0, <<Arr(<<>>)>>)

----------------------------------------------------------------------------
(* JavaScript values *)

undefined == [k |-> "undefined"]
false == [k |-> "false"]
Replacement(node) == [k |-> "node", v |-> node]
Truthy(result) == result.k = "node"

\* obj[k] of an object used as a map, `d` standing for the missing property.
Get(obj, k, d) == IF k \in DOMAIN obj THEN obj[k] ELSE d
Put(obj, k, v) == [x \in DOMAIN obj \cup {k} |-> IF x = k THEN v ELSE obj[x]]
\* Property order of an object: a new key goes last.
Ordered(order, k) ==
    IF \E i \in 1..Len(order) : order[i] = k THEN order ELSE Append(order, k)

\* new Eliminator(func): every table empty.
NewEliminator ==
    [ isLocal |-> {},
      isSingleDef |-> <<>>, singleDefOrder |-> <<>>,
      useCount |-> <<>>,
      usesOnlySimpleNodes |-> <<>>,
      dependsOnAGlobal |-> {},
      depsMutatedInLiveRange |-> {},
      initialValue |-> <<>>,
      affects |-> <<>>, affectsOrder |-> <<>> ]

----------------------------------------------------------------------------
(* The walker and the observers handed to it.  An observer is named by a   *)
(* string; `callback` dispatches on it.  An observer's closure state       *)
(* travels as `st`.                                                        *)

RECURSIVE traverse(_, _, _), traverseFrom(_, _, _, _), callback(_, _, _, _),
          analyzeBlock(_, _, _), traverseChild(_, _), traverseChildren(_, _, _),
          analyzeVar(_, _, _), optimizeBinary(_, _, _)

\* traverse(node, callback).  Returns the callback's result when it is truthy,
\* false when a subtree's traversal returned false, undefined otherwise;
\* `node` is the array after the in-place replacements, `st` the observer's
\* state afterwards.
traverse(node, cb, st) ==
    LET result == IF node.type # ARRAY
                  THEN callback(cb, node, node.type, st)
                  ELSE [ret |-> undefined, st |-> st]
    IN  IF Truthy(result.ret)
        THEN [ret |-> result.ret, st |-> result.st, node |-> node]
        ELSE traverseFrom(node, cb, result.st, 1)

\* The for loop of traverse, from `index` on.
traverseFrom(node, cb, st, index) ==
    IF index > Len(node.kids)
    THEN [ret |-> undefined, st |-> st, node |-> node]
    ELSE LET subnode == node.kids[index]
         IN  IF \/ subnode.type = ARRAY /\ Len(subnode.kids) = 0
                \/ node.type = "for-in" /\ subnode.type = "var"
             THEN traverseFrom(node, cb, st, index + 1)
             ELSE LET sub == traverse(subnode, cb, st)
                  IN  IF sub.ret.k = "false"
                      THEN [ret |-> false, st |-> sub.st,
                            node |-> [node EXCEPT !.kids[index] = sub.node]]
                      ELSE traverseFrom(
                               [node EXCEPT !.kids[index] =
                                   IF Truthy(sub.ret) THEN sub.ret.v ELSE sub.node],
                               cb, sub.st, index + 1)

----------------------------------------------------------------------------
(* Eliminator.calculateBasicVarStats *)

RECURSIVE basicVarStatsDecls(_, _, _)
\* The for loop over the entries of a `var` node.
basicVarStatsDecls(t, node1, i) ==
    IF i > Len(node1.kids) THEN t
    ELSE LET node1i == node1.kids[i]
             varName == node1i.type
             varValue == IF Len(node1i.kids) >= 1 THEN node1i.kids[1]
                         ELSE Name("undefined")
         IN  basicVarStatsDecls(
                 [t EXCEPT !.isLocal = @ \cup {varName},
                           !.isSingleDef = Put(@, varName, varName \notin DOMAIN @),
                           !.singleDefOrder = Ordered(@, varName),
                           !.initialValue = Put(@, varName, varValue),
                           !.useCount = Put(@, varName, 0)],
                 node1, i + 1)

\* The observer of calculateBasicVarStats; st is `that`.
basicVarStats(node, type, t) ==
    IF type = "var" THEN
        [ret |-> undefined, st |-> basicVarStatsDecls(t, node.kids[1], 1)]
    ELSE IF type = "name" THEN
        LET varName == node.s
        IN  [ret |-> undefined,
             st |-> IF varName \in DOMAIN t.useCount
                    THEN [t EXCEPT !.useCount[varName] = @ + 1]
                    ELSE [t EXCEPT !.isSingleDef = Put(@, varName, FALSE),
                                   !.singleDefOrder = Ordered(@, varName)]]
    ELSE IF type = "assign" THEN
        \* node[2][1] is a name only when the target is a name node
        LET target == node.kids[1]
        IN  [ret |-> undefined,
             st |-> IF target.type = "name" /\ Get(t.isSingleDef, target.s, FALSE)
                    THEN [t EXCEPT !.isSingleDef[target.s] = FALSE]
                    ELSE t]
    ELSE [ret |-> undefined, st |-> t]

calculateBasicVarStats(t, b) == traverse(b, "calculateBasicVarStats", t).st

----------------------------------------------------------------------------
(* Eliminator.analyzeInitialValues *)

\* The observer with call and new taken for nodes without side effects.
initialValueNodeCallIsSimple(node, type, st) ==
    LET t == st.that
        varName == st.varName
    IN  IF type \notin NODES_WITHOUT_SIDE_EFFECTS \cup {"call", "new"} THEN
            [ret |-> undefined,
             st |-> [st EXCEPT !.that.usesOnlySimpleNodes[varName] = FALSE]]
        ELSE IF type = "name" /\ node.s # "undefined" THEN
            LET reference == node.s
            IN  [ret |-> undefined,
                 st |-> [st EXCEPT
                     !.that.affects =
                         Put(@, reference, Get(@, reference, {}) \cup {varName}),
                     !.that.affectsOrder = Ordered(@, reference),
                     !.that.dependsOnAGlobal =
                         IF reference \notin t.isLocal THEN @ \cup {varName} ELSE @]]
        ELSE [ret |-> undefined, st |-> st]

\* The observer; st is [that, varName].
initialValueNode(node, type, st) ==
    LET t == st.that
        varName == st.varName
    IN  IF type \notin NODES_WITHOUT_SIDE_EFFECTS THEN
            [ret |-> undefined,
             st |-> [st EXCEPT !.that.usesOnlySimpleNodes[varName] = FALSE]]
        ELSE IF type = "name" /\ node.s # "undefined" THEN
            LET reference == node.s
            IN  [ret |-> undefined,
                 st |-> [st EXCEPT
                     !.that.affects =
                         Put(@, reference, Get(@, reference, {}) \cup {varName}),
                     !.that.affectsOrder = Ordered(@, reference),
                     !.that.dependsOnAGlobal =
                         IF reference \notin t.isLocal THEN @ \cup {varName} ELSE @]]
        ELSE [ret |-> undefined, st |-> st]

RECURSIVE analyzeInitialValuesFrom(_, _)
\* The for-in loop over isSingleDef, from property `i` on.
analyzeInitialValuesFrom(t, i) ==
    IF i > Len(t.singleDefOrder) THEN t
    ELSE LET varName == t.singleDefOrder[i]
         IN  IF ~t.isSingleDef[varName] THEN analyzeInitialValuesFrom(t, i + 1)
             ELSE analyzeInitialValuesFrom(
                      traverse(t.initialValue[varName], "analyzeInitialValues",
                               [that |-> [t EXCEPT !.usesOnlySimpleNodes =
                                              Put(@, varName, TRUE)],
                                varName |-> varName]).st.that,
                      i + 1)

analyzeInitialValues(t) == analyzeInitialValuesFrom(t, 1)

----------------------------------------------------------------------------
(* Eliminator.analyzeLiveRanges.  The analysis state `a` holds the local   *)
(* isLive, the instance `that`, whether a TypeError was thrown, and two    *)
(* history fields: kills (the sets of bindings taken from live to dead, in *)
(* order) and joins (one entry per if, try or switch left: the live set    *)
(* before and after, and what was killed in between).                      *)

Live(a) == {v \in DOMAIN a.isLive : a.isLive[v]}

\* isLive[v] = false for every v of `victims` that is a property of isLive.
SetDead(a, victims) ==
    [a EXCEPT !.isLive = [v \in DOMAIN @ |-> IF v \in victims THEN FALSE ELSE @[v]],
              !.kills = Append(@, victims \cap Live(a))]

\* The observer that fills usedInThisStatement; st is the set of names.
usedInThisStatement(node, type, used) ==
    [ret |-> undefined, st |-> IF type = "name" THEN used \cup {node.s} ELSE used]

\* node.slice(2, 4) of an assign ([lhs, rhs]) or a call ([args]).
Slice24(node) ==
    IF node.type = "assign" THEN Arr(<<node.kids[1], node.kids[2]>>)
    ELSE Arr(<<node.kids[2]>>)

RECURSIVE ReferenceThrows(_), BaseName(_)
\* while (reference[0] != 'name') reference = reference[1] runs off a node
\* whose element 1 is not a node (a number, an operator): a TypeError.
ReferenceThrows(reference) ==
    IF reference.type = "name" THEN FALSE
    ELSE IF reference.type \in {"sub", "call", "new"} THEN ReferenceThrows(reference.kids[1])
    ELSE TRUE

\* while (reference[0] != 'name') reference = reference[1]
BaseName(reference) ==
    IF reference.type = "name" THEN reference.s ELSE BaseName(reference.kids[1])

\* Lines 270-286: an assignment, ++ or -- kills what depends on its target.
killByMutation(node, type, a) ==
    IF /\ type \in {"assign", "unary-prefix", "unary-postfix"}
       /\ (type = "assign" \/ node.s \in {"--", "++"})
    THEN IF ReferenceThrows(node.kids[1]) THEN [a EXCEPT !.threw = TRUE]
         ELSE SetDead(a, Get(a.that.affects, BaseName(node.kids[1]), {}) \cap Live(a))
    ELSE a

\* Lines 288-293: a control-flow node kills every binding that depends on a
\* global or is not used in this statement.
killByControlFlow(a, used) ==
    SetDead(a, {v \in DOMAIN a.isLive : v \in a.that.dependsOnAGlobal \/ v \notin used})

\* Lines 294-299: an assignment kills every binding that depends on a global and
\* is not used in this statement.
killByAssign(a, used) ==
    SetDead(a, {v \in DOMAIN a.isLive : v \in a.that.dependsOnAGlobal /\ v \notin used})

\* Lines 300-307: a use of a single-def binding that is not live.
useOfName(node, a) ==
    LET reference == node.s
    IN  IF Get(a.that.isSingleDef, reference, FALSE) /\ ~Get(a.isLive, reference, FALSE)
        THEN [a EXCEPT !.that.depsMutatedInLiveRange = @ \cup {reference}]
        ELSE a

checkForMutations(node, type, a) ==
    LET used == IF type \in {"assign", "call"}
                THEN traverse(Slice24(node), "usedInThisStatement", {}).st
                ELSE {}
        a1 == killByMutation(node, type, a)
    IN  [ret |-> undefined,
         st |-> IF type \in CONTROL_FLOW_NODES THEN killByControlFlow(a1, used)
                ELSE IF type = "assign" THEN killByAssign(a1, used)
                ELSE IF type = "name" THEN useOfName(node, a1)
                ELSE a1]

\* traverseChild(child): the child is analysed from the current live set and
\* what it leaves dead is dead afterwards.
traverseChild(child, a) ==
    IF child.type = ARRAY /\ Len(child.kids) = 0 THEN a
    ELSE LET savedLive == [name \in DOMAIN a.isLive |-> TRUE]
             after == traverse(child, "analyzeBlock", a).st
             dead == {name \in DOMAIN after.isLive : ~after.isLive[name]}
         IN  [after EXCEPT !.isLive =
                 [name \in DOMAIN savedLive \cup dead |-> name \notin dead]]

\* traverseChild over kids[i..], in order.
traverseChildren(kids, i, a) ==
    IF i > Len(kids) THEN a
    ELSE traverseChildren(kids, i + 1, traverseChild(kids[i], a))

\* Lines 343-364: the entries of a `var` node, from entry `i` on.
analyzeVar(node1, i, a) ==
    IF i > Len(node1.kids) THEN a
    ELSE LET node1i == node1.kids[i]
             varName == node1i.type
             a1 == IF Len(node1i.kids) >= 1
                   THEN traverse(node1i.kids[1], "checkForMutations", a).st
                   ELSE a
             a2 == IF Get(a1.that.isSingleDef, varName, FALSE)
                   THEN [a1 EXCEPT !.isLive = Put(@, varName, TRUE)]
                   ELSE a1
             a3 == IF varName \in DOMAIN a2.that.affects
                   THEN SetDead(a2, a2.that.affects[varName] \cap Live(a2))
                   ELSE a2
         IN  analyzeVar(node1, i + 1, a3)

\* The live sets around an if, try or switch (history).
Joined(type, before, after) ==
    [after EXCEPT !.joins = Append(@,
        [type |-> type,
         before |-> Live(before),
         after |-> Live(after),
         killed |-> UNION {after.kills[i] : i \in (Len(before.kills) + 1)..Len(after.kills)}])]

\* analyzeBlock with a loop handled as an if is: isLive is kept on entry and
\* on exit.
analyzeBlockLoopKeepsLive(node, type, a) ==
    IF type \in ANALYZE_BLOCK_TYPES THEN
        [ret |-> Replacement(node),
         st |-> IF type = "switch" THEN
                    Joined(type, a,
                           traverseChildren(node.kids[2].kids, 1,
                                            traverseChild(node.kids[1], a)))
                ELSE IF type = "if" \/ type = "try" THEN
                    Joined(type, a, traverseChildren(node.kids, 1, a))
                ELSE traverseChildren(node.kids, 1, a)]
    ELSE IF type = "var" THEN
        [ret |-> Replacement(node), st |-> analyzeVar(node.kids[1], 1, a)]
    ELSE checkForMutations(node, type, a)

analyzeBlock(node, type, a) ==
    IF type \in ANALYZE_BLOCK_TYPES THEN
        [ret |-> Replacement(node),
         st |-> IF type = "switch" THEN
                    Joined(type, a,
                           traverseChildren(node.kids[2].kids, 1,
                                            traverseChild(node.kids[1], a)))
                ELSE IF type = "if" \/ type = "try" THEN
                    Joined(type, a, traverseChildren(node.kids, 1, a))
                ELSE
                    \* isLive = {} before the loop and after it
                    [traverseChildren(node.kids, 1, [a EXCEPT !.isLive = <<>>])
                        EXCEPT !.isLive = <<>>]]
    ELSE IF type = "var" THEN
        [ret |-> Replacement(node), st |-> analyzeVar(node.kids[1], 1, a)]
    ELSE checkForMutations(node, type, a)

analyzeLiveRanges(t, b) ==
    traverse(b, "analyzeBlock",
             [isLive |-> <<>>, that |-> t, kills |-> <<>>, joins |-> <<>>, threw |-> FALSE]).st

\* isEliminateable(varName)
isEliminateable(t, varName) ==
    IF Get(t.isSingleDef, varName, FALSE) /\ Get(t.usesOnlySimpleNodes, varName, FALSE)
    THEN IF t.useCount[varName] = 0 THEN TRUE
         ELSE IF t.useCount[varName] <= MAX_USES
              THEN varName \notin t.depsMutatedInLiveRange
              ELSE FALSE
    ELSE FALSE

----------------------------------------------------------------------------
(* The rewriter: removeDeclarations, collapseValues, updateUses *)

\* node[1].filter(...): the entries of a `var` that are not removed.
IntactVars(decls, toRemove) ==
    SelectSeq(decls, LAMBDA i : i.type \notin DOMAIN toRemove)

\* The observer of removeDeclarations; st is toRemove.
removeDeclaration(node, type, toRemove) ==
    IF type = "var" THEN
        LET intactVars == IntactVars(node.kids[1].kids, toRemove)
        IN  [ret |-> IF Len(intactVars) > 0
                     THEN Replacement([node EXCEPT !.kids[1] = Arr(intactVars)])
                     ELSE Replacement(TopLevel),
             st |-> toRemove]
    ELSE [ret |-> undefined, st |-> toRemove]

removeDeclarations(b, toRemove) == traverse(b, "removeDeclarations", toRemove).node

\* The observer of collapseValues; st is [values, varName, incomplete].
collapseValue(node, type, st) ==
    IF type = "name" /\ node.s \in DOMAIN st.values /\ node.s # st.varName
    THEN [ret |-> Replacement(st.values[node.s]), st |-> [st EXCEPT !.incomplete = TRUE]]
    ELSE [ret |-> undefined, st |-> st]

RECURSIVE collapsePass(_, _, _)
\* One pass of the for-in loop over `values`, from property `i` of `order` on.
collapsePass(st, order, i) ==
    IF i > Len(order) THEN st
    ELSE LET varName == order[i]
             r == traverse(st.values[varName], "collapseValues",
                           [st EXCEPT !.varName = varName])
         IN  collapsePass(
                 [r.st EXCEPT !.values[varName] =
                     IF Truthy(r.ret) THEN r.ret.v ELSE r.node],
                 order, i + 1)

RECURSIVE collapseWhile(_, _)
\* while (incomplete) { ... }
collapseWhile(values, order) ==
    LET st == collapsePass([values |-> values, varName |-> "", incomplete |-> FALSE],
                           order, 1)
    IN  IF st.incomplete THEN collapseWhile(st.values, order) ELSE st.values

\* collapseValues(values); `order` is the property order of `values`.
collapseValues(values, order) == collapseWhile(values, order)

\* The observer of updateUses; st is replacements.
updateUse(node, type, replacements) ==
    IF type = "name" /\ node.s \in DOMAIN replacements
    THEN [ret |-> Replacement(replacements[node.s]), st |-> replacements]
    ELSE [ret |-> undefined, st |-> replacements]

updateUses(b, replacements) == traverse(b, "updateUses", replacements).node

----------------------------------------------------------------------------
(* ExpressionOptimizer *)

\* The inner observer with num = subNode[1] for num += subNode[1].
chainNodeLastLiteral(subNode, subType, st) ==
    LET seen == [st EXCEPT !.visited = Append(@, subNode)]
        stop == [seen EXCEPT !.fail = TRUE,
                             !.stopAt = IF @ = 0 THEN Len(seen.visited) ELSE @]
    IN  IF subType = "binary" THEN
            IF subNode.s # "+" THEN [ret |-> false, st |-> stop]
            ELSE [ret |-> undefined, st |-> seen]
        ELSE IF subType = "name" THEN
            [ret |-> undefined, st |-> [seen EXCEPT !.names = Append(@, subNode.s)]]
        ELSE IF subType = "num" THEN
            [ret |-> undefined, st |-> [seen EXCEPT !.num = subNode.n, !.has_num = TRUE]]
        ELSE [ret |-> false, st |-> stop]

\* The observer of the inner traversal (lines 446-463); st holds names, num,
\* has_num, fail, and two history fields: visited (the nodes handed to the
\* observer, in order) and stopAt (how many had been handed to it when it
\* first returned false; 0 if it never did).
chainNode(subNode, subType, st) ==
    LET seen == [st EXCEPT !.visited = Append(@, subNode)]
        stop == [seen EXCEPT !.fail = TRUE,
                             !.stopAt = IF @ = 0 THEN Len(seen.visited) ELSE @]
    IN  IF subType = "binary" THEN
            IF subNode.s # "+" THEN [ret |-> false, st |-> stop]
            ELSE [ret |-> undefined, st |-> seen]
        ELSE IF subType = "name" THEN
            [ret |-> undefined, st |-> [seen EXCEPT !.names = Append(@, subNode.s)]]
        ELSE IF subType = "num" THEN
            [ret |-> undefined, st |-> [seen EXCEPT !.num = @ + subNode.n, !.has_num = TRUE]]
        ELSE [ret |-> false, st |-> stop]

RECURSIVE rebuildChain(_, _, _)
\* for (i < names.length) ret = ['binary', '+', ['name', names[i]], ret]
rebuildChain(ret, names, i) ==
    IF i > Len(names) THEN ret
    ELSE rebuildChain(Binary("+", Name(names[i]), ret), names, i + 1)

\* The observer of ExpressionOptimizer.run; st is the history of inner
\* traversals.
optimizeBinary(node, type, log) ==
    IF type = "binary" /\ node.s = "+" THEN
        LET r == traverse(node, "chain",
                          [names |-> <<>>, num |-> 0, has_num |-> FALSE, fail |-> FALSE,
                           visited |-> <<>>, stopAt |-> 0])
            log1 == Append(log, [ret |-> r.ret.k, visited |-> r.st.visited,
                                 stopAt |-> r.st.stopAt])
        IN  IF ~r.st.fail /\ r.st.has_num
            THEN [ret |-> Replacement(rebuildChain(Num(r.st.num), r.st.names, 1)),
                  st |-> log1]
            ELSE [ret |-> undefined, st |-> log1]
    ELSE [ret |-> undefined, st |-> log]

\* new ExpressionOptimizer(node).run()
ExpressionOptimizer(node) == traverse(node, "ExpressionOptimizer", <<>>)

----------------------------------------------------------------------------
\* callback(node, type) of the observer named cb.
callback(cb, node, type, st) ==
    CASE cb = "calculateBasicVarStats" -> basicVarStats(node, type, st)
      [] cb = "analyzeInitialValues" -> initialValueNode(node, type, st)
      [] cb = "usedInThisStatement" -> usedInThisStatement(node, type, st)
      [] cb = "checkForMutations" -> checkForMutations(node, type, st)
      [] cb = "analyzeBlock" -> analyzeBlock(node, type, st)
      [] cb = "removeDeclarations" -> removeDeclaration(node, type, st)
      [] cb = "collapseValues" -> collapseValue(node, type, st)
      [] cb = "updateUses" -> updateUse(node, type, st)
      [] cb = "chain" -> chainNode(node, type, st)
      [] cb = "ExpressionOptimizer" -> optimizeBinary(node, type, st)

----------------------------------------------------------------------------
(* Eliminator.calculateTransitiveDependencies *)

RECURSIVE GrowTargets(_, _, _)
\* The two inner for-in loops for one source when for-in also visits the
\* targets added during the loop: repeat until nothing is added.
GrowTargets(affects, td, targets) ==
    LET more == UNION {Get(affects, target, {}) : target \in targets \cap td}
    IN  IF more \subseteq targets THEN targets
        ELSE GrowTargets(affects, td, targets \cup more)

\* The targets of `source` after the two inner for-in loops (lines 234-247).
NewTargets(affects, td, source, live) ==
    LET targets == affects[source]
    IN  IF live THEN GrowTargets(affects, td, targets)
        ELSE targets \cup UNION {Get(affects, target, {}) : target \in targets \cap td}

RECURSIVE transitiveRound(_, _, _, _)
\* The loop over this.affects without nextTodo[source] = true: a source that
\* gained targets is not looked at again.
transitiveRoundNoRequeue(st, td, live, i) ==
    IF i > Len(st.that.affectsOrder) THEN st
    ELSE LET source == st.that.affectsOrder[i]
             targets == NewTargets(st.that.affects, td, source, live)
             added == targets \ st.that.affects[source]
             next == IF added = {} THEN st
                     ELSE [that |-> [st.that EXCEPT
                               !.affects[source] = targets,
                               !.dependsOnAGlobal =
                                   IF source \notin st.that.isLocal THEN @ \cup added ELSE @],
                           nextTodo |-> st.nextTodo,
                           incomplete |-> TRUE]
         IN  CHOOSE r \in {transitiveRound(s, td, live, i + 1) : s \in {next}} : TRUE

\* The for-in loop over this.affects (line 233), from property `i` on;
\* st is [that, nextTodo, incomplete].
transitiveRound(st, td, live, i) ==
    IF i > Len(st.that.affectsOrder) THEN st
    ELSE LET source == st.that.affectsOrder[i]
             targets == NewTargets(st.that.affects, td, source, live)
             added == targets \ st.that.affects[source]
             next == IF added = {} THEN st
                     ELSE [that |-> [st.that EXCEPT
                               !.affects[source] = targets,
                               !.dependsOnAGlobal =
                                   IF source \notin st.that.isLocal THEN @ \cup added ELSE @],
                           nextTodo |-> st.nextTodo \cup {source},
                           incomplete |-> TRUE]
         \* the loop goes on from the tables as they are now (s is their value)
         IN  CHOOSE r \in {transitiveRound(s, td, live, i + 1) : s \in {next}} : TRUE

----------------------------------------------------------------------------
(* Eliminator.run, lines 149-162 *)

RECURSIVE selectEliminateable(_, _, _)
\* for (varName in isSingleDef) if (isEliminateable(varName)) ...: the
\* eliminated names, in property order.
selectEliminateable(t, i, acc) ==
    IF i > Len(t.singleDefOrder) THEN acc
    ELSE selectEliminateable(t, i + 1,
             IF isEliminateable(t, t.singleDefOrder[i])
             THEN Append(acc, t.singleDefOrder[i]) ELSE acc)

ToReplace(t) ==
    LET order == selectEliminateable(t, 1, <<>>)
    IN  [order |-> order,
         values |-> [v \in {order[i] : i \in 1..Len(order)} |-> t.initialValue[v]]]

\* removeDeclarations; collapseValues; updateUses
rewrite(b, replace) ==
    updateUses(removeDeclarations(b, replace.values),
               collapseValues(replace.values, replace.order))

----------------------------------------------------------------------------
(* Actions *)

\* new Eliminator(func).run(), line 144
CalculateBasicVarStats ==
    /\ pc = "run"
    /\ that' = calculateBasicVarStats(NewEliminator, body)
    /\ pc' = "stats"
    /\ joins' = <<>>
    /\ UNCHANGED <<body, todo, incomplete, forInLive, toReplace, eliminated,
                   input, history, scans>>

\* line 145
AnalyzeInitialValues ==
    /\ pc = "stats"
    /\ that' = analyzeInitialValues(that)
    /\ pc' = "values"
    /\ UNCHANGED <<body, todo, incomplete, forInLive, toReplace, eliminated,
                   input, history, joins, scans>>

\* calculateTransitiveDependencies, lines 222-226
BeginTransitiveDependencies ==
    /\ pc = "values"
    /\ incomplete' = TRUE
    /\ todo' = DOMAIN that.affects
    /\ pc' = "closure"
    /\ UNCHANGED <<body, that, forInLive, toReplace, eliminated,
                   input, history, joins, scans>>

\* One iteration of while (incomplete), lines 230-250
TransitiveDependenciesRound ==
    /\ pc = "closure"
    /\ incomplete
    /\ LET st == transitiveRound([that |-> that, nextTodo |-> {}, incomplete |-> FALSE],
                                 todo, forInLive, 1)
       IN  /\ that' = st.that
           /\ todo' = st.nextTodo
           /\ incomplete' = st.incomplete
    /\ UNCHANGED <<pc, body, forInLive, toReplace, eliminated,
                   input, history, joins, scans>>

\* line 147, once the while loop has ended
AnalyzeLiveRanges ==
    /\ pc = "closure"
    /\ ~incomplete
    /\ LET a == analyzeLiveRanges(that, body)
       IN  IF a.threw
           THEN \* the TypeError leaves run (and main): nothing is printed
                /\ pc' = "threw"
                /\ UNCHANGED <<that, joins>>
           ELSE /\ pc' = "ranges"
                /\ that' = a.that
                /\ joins' = a.joins
    /\ UNCHANGED <<body, todo, incomplete, forInLive, toReplace, eliminated,
                   input, history, scans>>

\* lines 149-162
Rewrite ==
    /\ pc = "ranges"
    /\ LET replace == ToReplace(that)
           b == rewrite(body, replace)
       IN  /\ toReplace' = replace.values
           /\ eliminated' = Len(replace.order)
           /\ body' = b
           /\ history' = Append(history, [body |-> b,
                                          eliminated |-> Len(replace.order),
                                          removed |-> DOMAIN replace.values])
    /\ pc' = "done"
    /\ UNCHANGED <<that, todo, incomplete, forInLive, input, joins, scans>>

\* optimize_function is called again on the body it produced.
RunAgain ==
    /\ pc = "done"
    /\ Len(history) < MaxRuns
    /\ pc' = "run"
    /\ that' = NewEliminator
    /\ toReplace' = <<>>
    /\ eliminated' = 0
    /\ UNCHANGED <<body, todo, incomplete, forInLive, input, history, joins, scans>>

\* new ExpressionOptimizer(node[3]).run(), line 499
ExpressionOptimizerRun ==
    /\ pc = "done"
    /\ LET r == ExpressionOptimizer(body)
       IN  /\ body' = r.node
           /\ scans' = r.st
    /\ pc' = "folded"
    /\ UNCHANGED <<that, todo, incomplete, forInLive, toReplace, eliminated,
                   input, history, joins>>

----------------------------------------------------------------------------
(* Function bodies handed to optimize_function.  a and b are bindings of   *)
(* the body; x, c, f and F are names the body does not declare.            *)

NameA == Name("a")
NameB == Name("b")
NameX == Name("x")
NameC == Name("c")
CallF(args) == Call(Name("f"), args)

Lits == {Num(i) : i \in 1..MaxNum}

\* Initializers: pure ones, and ones holding a call or a new at depth 1 or 2.
InitExprs ==
    Lits \cup
    { NameX, Binary("+", NameX, Num(1)), CallF(<<>>), New(Name("F"), <<>>),
      Binary("+", CallF(<<>>), Num(1)) }

Prefixes ==
    {<<Var(<<Decl("a", e)>>)>> : e \in InitExprs} \cup
    {<<Var(<<Decl("b", e)>>), Var(<<Decl("a", NameB)>>)>> :
        e \in Lits \cup {NameX, CallF(<<>>)}} \cup
    {<<Var(<<Decl("a", NameX), Decl("b", NameA)>>)>>}

\* Statements that mutate a name, or hold a call, a new or a throw.
Effects ==
    { Stat(Assign(NameX, Num(2))), Stat(Assign(NameA, Num(2))),
      Stat(Postfix("++", NameX)), Stat(Prefix("--", NameX)),
      Stat(Postfix("++", NameA)),
      Stat(CallF(<<>>)), Stat(CallF(<<NameA>>)),
      Throw(NameX), Stat(New(Name("F"), <<>>)) }

LoopKinds == {"do", "while", "for", "for-in"}
BranchKinds == {"if", "try", "switch"}

\* A construct of the given kind around the statements `inner`, with
\* condition (discriminant, iterated object) `cond`.
WrapCond(kind, cond, inner) ==
    CASE kind = "if" -> If(cond, Block(inner))
      [] kind = "try" -> Try(inner, "e", <<>>)
      [] kind = "switch" -> Switch(cond, <<Case(Num(1), inner)>>)
      [] kind = "while" -> While(cond, Block(inner))
      [] kind = "do" -> Do(cond, Block(inner))
      [] kind = "for" -> For(Var(<<Decl("i", Num(1))>>), cond,
                             Postfix("++", Name("i")), Block(inner))
      [] kind = "for-in" -> ForIn(Var(<<DeclNoInit("k")>>), Name("k"), cond,
                                  Block(inner))

Wrap(kind, inner) == WrapCond(kind, NameC, inner)

EmptyLoop == While(NameC, Block(<<>>))

InnerItems == Effects \cup {Return(NameA), Var(<<Decl("b", Num(1))>>)}
NestItems ==
    { Return(NameA), Stat(Assign(NameX, Num(2))), Stat(CallF(<<>>)),
      Var(<<Decl("b", Num(1))>>) }
NestKinds == {"if", "while"}

\* Constructs nested to this depth (1: a construct around plain statements).
MaxDepth == 2

RECURSIVE Nested(_)
\* Statement lists holding NestItems under d - 1 constructs.
Nested(d) ==
    IF d = 1 THEN {<<s>> : s \in NestItems}
    ELSE {<<Wrap(k, n)>> : k \in NestKinds, n \in Nested(d - 1)}

Middles ==
    {<<>>} \cup
    {<<e>> : e \in Effects} \cup
    {<<Wrap(k, <<s>>)>> : k \in ANALYZE_BLOCK_TYPES, s \in InnerItems} \cup
    {<<Wrap(k, <<s, EmptyLoop>>)>> : k \in ANALYZE_BLOCK_TYPES,
        s \in {Stat(Assign(NameX, Num(2))), Stat(CallF(<<>>)), Stat(Postfix("++", NameX))}} \cup
    {<<Wrap(k, n)>> : k \in ANALYZE_BLOCK_TYPES,
        n \in UNION {Nested(d) : d \in 2..MaxDepth}} \cup
    {<<WrapCond(k, NameA, <<>>)>> : k \in LoopKinds \cup {"if"}}

Suffixes == {<<>>, <<Return(NameA)>>, <<Return(NameB)>>}

Bodies == {Arr(p \o m \o s) : p \in Prefixes, m \in Middles, s \in Suffixes}

----------------------------------------------------------------------------
(* Specification: one run of the eliminator, then the expression optimizer *)
(* (main, lines 497-499)                                                   *)

Init ==
    /\ body \in Bodies
    /\ input = body
    /\ pc = "run"
    /\ that = NewEliminator
    /\ todo = {}
    /\ incomplete = FALSE
    /\ forInLive = FALSE
    /\ toReplace = <<>>
    /\ eliminated = 0
    /\ history = <<>>
    /\ joins = <<>>
    /\ scans = <<>>

Next ==
    \/ CalculateBasicVarStats
    \/ AnalyzeInitialValues
    \/ BeginTransitiveDependencies
    \/ TransitiveDependenciesRound
    \/ AnalyzeLiveRanges
    \/ Rewrite
    \/ ExpressionOptimizerRun

Spec == Init /\ [][Next]_vars

----------------------------------------------------------------------------
(* Reading a body: positions in source order, declarations, uses,          *)
(* mutations, dependencies.  These definitions describe the input; they    *)
(* use none of the eliminator's tables.                                    *)

RECURSIVE PreOrder(_), PreOrderKids(_, _)
\* Every array of the tree, in source (pre-)order.
PreOrder(node) == <<node>> \o PreOrderKids(node.kids, 1)
PreOrderKids(kids, i) ==
    IF i > Len(kids) THEN <<>> ELSE PreOrder(kids[i]) \o PreOrderKids(kids, i + 1)

Size(node) == Len(PreOrder(node))

\* Position j lies inside the subtree rooted at position i of P.
Inside(P, i, j) == i < j /\ j < i + Size(P[i])
\* Position j lies after the subtree rooted at position i of P.
After(P, i, j) == j >= i + Size(P[i])

\* The names declared by the `var` nodes of a tree.
Declared(tree) ==
    LET P == PreOrder(tree)
    IN  UNION {{P[i].kids[1].kids[k].type : k \in 1..Len(P[i].kids[1].kids)} :
                  i \in {j \in 1..Len(P) : P[j].type = "var"}}

\* Positions of the `var` entries that declare v.
DeclsOf(P, v) ==
    {j \in 1..Len(P) : /\ P[j].type = v
                       /\ \E i \in 1..Len(P) : /\ P[i].type = "var"
                                               /\ Inside(P, i, j)
                                               /\ \E k \in 1..Len(P[i].kids[1].kids) :
                                                      P[i].kids[1].kids[k] = P[j]}

\* Positions of the name nodes that refer to v.
UsesOf(P, v) == {j \in 1..Len(P) : P[j].type = "name" /\ P[j].s = v}

NamesIn(tree) ==
    LET P == PreOrder(tree)
    IN  {P[j].s : j \in {i \in 1..Len(P) : P[i].type = "name"}}

CountType(tree, types) ==
    LET P == PreOrder(tree)
    IN  Cardinality({j \in 1..Len(P) : P[j].type \in types})

\* An assignment, an increment or a decrement.
IsMutation(node) ==
    \/ node.type = "assign"
    \/ node.type \in {"unary-prefix", "unary-postfix"} /\ node.s \in {"++", "--"}

MutatedNames(tree) ==
    LET P == PreOrder(tree)
    IN  {BaseName(P[j].kids[1]) : j \in {i \in 1..Len(P) : IsMutation(P[i])}}

\* The names the initializer of the entry at position d reads.
Reads(P, d) == IF Len(P[d].kids) = 0 THEN {} ELSE NamesIn(P[d].kids[1]) \ {"undefined"}

\* v is declared once, never mutated, and not referred to before its
\* declaration.
DeclaredOnce(P, v) ==
    /\ Cardinality(DeclsOf(P, v)) = 1
    /\ v \notin MutatedNames(P[1])
    /\ \A d \in DeclsOf(P, v), u \in UsesOf(P, v) : d < u

ReadsOfName(P, w) == UNION {Reads(P, d) : d \in DeclsOf(P, w)}

RECURSIVE DepsFrom(_, _)
DepsFrom(P, S) ==
    LET more == UNION {ReadsOfName(P, w) : w \in {n \in S : DeclaredOnce(P, n)}}
    IN  IF more \subseteq S THEN S ELSE DepsFrom(P, S \cup more)

\* The names the initializer of v reads, directly or through the
\* initializers of single-def bindings.
Deps(P, v) == DepsFrom(P, ReadsOfName(P, v))

\* The initializer of the entry at position d holds a call, new or throw.
Impure(P, d) ==
    Len(P[d].kids) > 0 /\ CountType(P[d].kids[1], {"call", "new", "throw"}) > 0

IsLoop(node) == node.type \in {"do", "while", "for", "for-in"}

\* The first run has rewritten the body.
Ran == pc \in {"done", "folded"} /\ Len(history) >= 1
\* The bindings the first run eliminated.
Removed == history[1].removed

----------------------------------------------------------------------------
(* Properties of one run, checked under Spec *)

\* C1: a binding with a use is eliminated only if no name its initializer
\* transitively reads is assigned, incremented or decremented between its
\* declaration and that use.
C1_NoMutationInLiveRange ==
    Ran =>
        LET P == PreOrder(input)
        IN  \A v \in Removed :
                \A d \in DeclsOf(P, v), u \in UsesOf(P, v) :
                    \A m \in (d + 1)..(u - 1) :
                        IsMutation(P[m]) => BaseName(P[m].kids[1]) \notin Deps(P, v)

\* C2: a binding that is the target of an assignment, ++ or -- anywhere in
\* the body is never single-def and never eliminated.
C2_MutatedNeverSingleDef ==
    pc \notin {"run"} =>
        \A v \in MutatedNames(input) \cap Declared(input) :
            /\ ~Get(that.isSingleDef, v, FALSE)
            /\ Ran => v \notin Removed

\* C3: a binding that depends on a non-local name is not eliminated at a use
\* when a call, new or throw lies between its declaration and that use.
C3_NoGlobalPastCall ==
    Ran =>
        LET P == PreOrder(input)
        IN  \A v \in Removed :
                \A d \in DeclsOf(P, v), u \in UsesOf(P, v) :
                    \A m \in (d + 1)..(u - 1) :
                        ~ /\ P[m].type \in {"call", "new", "throw"}
                          /\ Deps(P, v) \ Declared(input) # {}

\* Position u uses v across a loop boundary: v is declared before loop l and
\* used inside it, or declared inside it and used after it.
AcrossLoop(P, d, u) ==
    \E l \in 1..Len(P) :
        /\ IsLoop(P[l])
        /\ \/ d < l /\ Inside(P, l, u)
           \/ Inside(P, l, d) /\ After(P, l, u)

\* C5: loop barrier: a binding declared before a loop with a use inside it,
\* or declared inside a loop with a use after it, is not eliminated.
C5_LoopBarrier ==
    Ran =>
        LET P == PreOrder(input)
        IN  \A v \in Removed :
                \A d \in DeclsOf(P, v), u \in UsesOf(P, v) : ~AcrossLoop(P, d, u)

\* A binding the eliminator would take (single-def, pure, used once) is used
\* across a loop boundary, and the run has kept it.
C5_Witness ==
    /\ Ran
    /\ LET P == PreOrder(input)
       IN  \E v \in Declared(input) \ Removed :
               /\ that.isSingleDef[v] /\ that.usesOnlySimpleNodes[v]
               /\ that.useCount[v] = 1
               /\ \E d \in DeclsOf(P, v), u \in UsesOf(P, v) : AcrossLoop(P, d, u)

\* The entry of v in the rewritten body still holds a call or a new.
KeptImpure(v) ==
    LET Q == PreOrder(body)
    IN  \E e \in DeclsOf(Q, v) : Impure(Q, e)

\* C6: a binding whose initializer holds a call, new or throw is never
\* eliminated: its declaration stays, and no call or new is removed or
\* duplicated.
C6_ImpureKept ==
    pc = "done" =>
        LET P == PreOrder(input)
        IN  /\ \A v \in Declared(input) :
                   (\E d \in DeclsOf(P, v) : Impure(P, d)) =>
                       v \notin Removed /\ KeptImpure(v)
            /\ CountType(body, {"call"}) = CountType(input, {"call"})
            /\ CountType(body, {"new"}) = CountType(input, {"new"})

\* A single-def binding used once and live at its use is kept because its
\* initializer holds a call.
C6_Witness ==
    /\ pc = "done"
    /\ LET P == PreOrder(input)
       IN  \E v \in Declared(input) \ Removed :
               /\ \E d \in DeclsOf(P, v) : Impure(P, d)
               /\ that.isSingleDef[v] /\ that.useCount[v] = 1
               /\ v \notin that.depsMutatedInLiveRange

\* C8: after an if, try or switch, a binding is live only if it was live
\* before the construct and was not killed inside it.
C8_JoinByIntersection ==
    \A j \in 1..Len(joins) :
        joins[j].after \subseteq (joins[j].before \ joins[j].killed)

----------------------------------------------------------------------------
(* SpecTwice: optimize_function run again on the body it produced *)

BodiesTwice ==
    {Arr(p \o m \o s) : p \in Prefixes, m \in {<<>>} \cup {<<e>> : e \in Effects},
                        s \in Suffixes}

InitTwice ==
    /\ body \in BodiesTwice
    /\ input = body
    /\ pc = "run"
    /\ that = NewEliminator
    /\ todo = {}
    /\ incomplete = FALSE
    /\ forInLive = FALSE
    /\ toReplace = <<>>
    /\ eliminated = 0
    /\ history = <<>>
    /\ joins = <<>>
    /\ scans = <<>>

NextTwice ==
    \/ CalculateBasicVarStats
    \/ AnalyzeInitialValues
    \/ BeginTransitiveDependencies
    \/ TransitiveDependenciesRound
    \/ AnalyzeLiveRanges
    \/ Rewrite
    \/ RunAgain
    \/ ExpressionOptimizerRun

SpecTwice == InitTwice /\ [][NextTwice]_vars

\* C4: a second run on the body the first run produced eliminates nothing
\* and leaves the AST as it is.
C4_SecondRunChangesNothing ==
    Len(history) >= 2 =>
        /\ history[2].eliminated = 0
        /\ history[2].body = history[1].body

----------------------------------------------------------------------------
(* SpecFold: fold_additions on an expression *)

FoldLeaves == Lits \cup {NameX, Name("y"), CallF(<<>>)}
FoldLevel1 == {Binary(op, l, r) : op \in {"+", "-"}, l \in FoldLeaves, r \in FoldLeaves}
FoldLevel2 ==
    {Binary(op, l, r) : op \in {"+", "-"}, l \in FoldLeaves \cup FoldLevel1,
                        r \in FoldLeaves \cup FoldLevel1}

InitFold ==
    /\ body \in {Arr(<<Var(<<Decl("a", e)>>)>>) : e \in FoldLevel2}
    /\ input = body
    /\ pc = "done"
    /\ that = NewEliminator
    /\ todo = {}
    /\ incomplete = FALSE
    /\ forInLive = FALSE
    /\ toReplace = <<>>
    /\ eliminated = 0
    /\ history = <<>>
    /\ joins = <<>>
    /\ scans = <<>>

NextFold == ExpressionOptimizerRun

SpecFold == InitFold /\ [][NextFold]_vars

IsPlus(node) == node.type = "binary" /\ node.s = "+"

\* The chain under a node holds only '+' nodes, literals and names.
PureChain(node) ==
    LET P == PreOrder(node)
    IN  \A i \in 1..Len(P) : IsPlus(P[i]) \/ P[i].type \in {"num", "name"}

RECURSIVE SumSeq(_, _), NamesSeq(_, _)
\* The sum of the literals of P[i..].
SumSeq(P, i) ==
    IF i > Len(P) THEN 0
    ELSE (IF P[i].type = "num" THEN P[i].n ELSE 0) + SumSeq(P, i + 1)
\* The names of P[i..], in encounter order.
NamesSeq(P, i) ==
    IF i > Len(P) THEN <<>>
    ELSE (IF P[i].type = "name" THEN <<P[i].s>> ELSE <<>>) \o NamesSeq(P, i + 1)

RECURSIVE NumThenNames(_, _, _), NamesThenNum(_, _, _)
\* ((num + name0) + name1) ...
NumThenNames(acc, names, i) ==
    IF i > Len(names) THEN acc
    ELSE NumThenNames(Binary("+", acc, Name(names[i])), names, i + 1)
\* ... (name1 + (name0 + num))
NamesThenNum(acc, names, i) ==
    IF i > Len(names) THEN acc
    ELSE NamesThenNum(Binary("+", Name(names[i]), acc), names, i + 1)

StatedShape(node) ==
    LET P == PreOrder(node) IN NumThenNames(Num(SumSeq(P, 1)), NamesSeq(P, 1), 1)
RebuiltShape(node) ==
    LET P == PreOrder(node) IN NamesThenNum(Num(SumSeq(P, 1)), NamesSeq(P, 1), 1)

RECURSIVE FoldedAsStated(_, _, _), FoldedAsRebuilt(_, _, _)
\* Every top of a maximal pure chain with a literal in `in` is, in `out`, the
\* stated shape.
FoldedAsStated(in, out, underPlus) ==
    IF IsPlus(in) /\ PureChain(in)
    THEN (~underPlus /\ CountType(in, {"num"}) > 0) => out = StatedShape(in)
    ELSE /\ Len(out.kids) = Len(in.kids)
         /\ \A k \in 1..Len(in.kids) : FoldedAsStated(in.kids[k], out.kids[k], IsPlus(in))
\* The same, for the shape with each name as the left operand.
FoldedAsRebuilt(in, out, underPlus) ==
    IF IsPlus(in) /\ PureChain(in)
    THEN (~underPlus /\ CountType(in, {"num"}) > 0) => out = RebuiltShape(in)
    ELSE /\ Len(out.kids) = Len(in.kids)
         /\ \A k \in 1..Len(in.kids) : FoldedAsRebuilt(in.kids[k], out.kids[k], IsPlus(in))

\* C7 as stated: every maximal chain of '+' over literals and names with at
\* least one literal is rebuilt as ((num + name0) + name1) ..., num being
\* the sum of the literals.
C7_RebuiltNumFirst ==
    pc = "folded" => FoldedAsStated(input, body, FALSE)

\* C7 as amended: it is rebuilt as name_k + (... + (name0 + num)): num is the
\* sum of the literals, at the innermost position, as the right operand.
C7_RebuiltNumInnermostRight ==
    pc = "folded" => FoldedAsRebuilt(input, body, FALSE)

\* 1 + 2 + x (two literals and a name) has been folded.
C7_Witness ==
    /\ pc = "folded"
    /\ input.kids[1].kids[1].kids[1].kids[1] =
           Binary("+", Binary("+", Num(1), Num(2)), NameX)
    /\ body.kids[1].kids[1].kids[1].kids[1] = Binary("+", NameX, Num(3))

\* C10: when the observer returns false for a node, no child of that node
\* and no later node is handed to the observer, and traverse returns false.
C10_StopAbortsTraversal ==
    \A i \in 1..Len(scans) :
        scans[i].stopAt > 0 =>
            /\ Len(scans[i].visited) = scans[i].stopAt
            /\ scans[i].ret = "false"

----------------------------------------------------------------------------
(* SpecClosure: calculateTransitiveDependencies on an affects graph.  a, b *)
(* and c are single-def locals, x is not local; the property order of      *)
(* this.affects is any order of its sources.                               *)

ClosureLocals == {"a", "b", "c"}
ClosureNames == ClosureLocals \cup {"x"}

EdgeSets ==
    {E \in SUBSET (ClosureNames \X ClosureLocals) : Cardinality(E) <= MaxEdges}

Sources(E) == {e[1] : e \in E}
Graph(E) == [s \in Sources(E) |-> {e[2] : e \in {d \in E : d[1] = s}}]
Orders(S) ==
    {p \in [1..Cardinality(S) -> S] : \A i, j \in 1..Cardinality(S) : p[i] = p[j] => i = j}

InitClosure ==
    /\ \E E \in EdgeSets : \E p \in Orders(Sources(E)) :
           that = [NewEliminator EXCEPT
                      !.isLocal = ClosureLocals,
                      !.isSingleDef = [v \in ClosureNames |-> v \in ClosureLocals],
                      !.affects = Graph(E),
                      !.affectsOrder = p,
                      !.dependsOnAGlobal = {e[2] : e \in {d \in E : d[1] = "x"}}]
    /\ forInLive \in BOOLEAN
    /\ pc = "values"
    /\ body = Arr(<<>>)
    /\ input = body
    /\ todo = {}
    /\ incomplete = FALSE
    /\ toReplace = <<>>
    /\ eliminated = 0
    /\ history = <<>>
    /\ joins = <<>>
    /\ scans = <<>>

NextClosure ==
    \/ BeginTransitiveDependencies
    \/ TransitiveDependenciesRound

\* The function runs to its end: the loop is not abandoned midway.
SpecClosure == InitClosure /\ [][NextClosure]_vars /\ WF_vars(NextClosure)

\* calculateTransitiveDependencies has returned.
Returned == pc = "closure" /\ ~incomplete

\* For every source s and every t in affects[s], affects[t] is in affects[s].
TransitivelyClosed(affects) ==
    \A s \in DOMAIN affects : \A t \in affects[s] :
        Get(affects, t, {}) \subseteq affects[s]

\* C9: calculateTransitiveDependencies terminates, and on return the
\* affects graph is transitively closed.
C9_TerminatesClosed ==
    /\ <>Returned
    /\ [](Returned => TransitivelyClosed(that.affects))

\* It has returned from a chain x -> a -> b -> c, having added x -> c.
C9_Witness ==
    /\ Returned
    /\ "c" \in Get(that.affects, "x", {})
    /\ "b" \in Get(that.affects, "a", {})
    /\ Cardinality(Get(that.affects, "b", {})) = 1
    /\ Cardinality(Get(that.affects, "a", {})) = 2
    /\ Cardinality(Get(that.affects, "x", {})) = 3

====
